---- MODULE Spec2Model ----
(***************************************************************************)
(* A state-machine model of the WebXR AR placement demo (gqmv/ra2).        *)
(*                                                                         *)
(* Two imperative variants of the same component are modelled side by     *)
(* side, selected by the variable `variant`, which never changes:          *)
(*   "App"    - src/src/App.tsx       (single sphere, hit test re-queried  *)
(*              on select, optional anchors)                               *)
(*   "Simple" - src/unnamed/part_002  (SimpleWebXR: many spheres, placed   *)
(*              at the reticle, frame loop unregistered on end)            *)
(* The declarative components of src/src/XrHitCube.tsx are modelled by    *)
(* the h* variables: the single-object one by the specification SpecHit,   *)
(* the multi-object ones (placeModel / placeCube) by SpecCubes.            *)
(*                                                                         *)
(* The platform (WebXR device API, three.js renderer, React) is the        *)
(* environment: every promise the code awaits may resolve or reject, and   *)
(* the code after an await runs as one atomic step.  React state updates   *)
(* use functional setState and are taken to be committed before the next   *)
(* event is delivered.                                                     *)
(***************************************************************************)
EXTENDS Integers, Sequences, FiniteSets, TLC

\* ---------------------------------------------------------------- bounds
MaxSessions == 2        \* sessions the platform grants in one run
MaxHits     == 2        \* hit-test results returned by one query
MaxObjects  == 2        \* spheres placed in one session (Simple)
MaxClock    == 6        \* diagnostic records written between two clears of the log
MaxTurns    == 2        \* useFrame ticks that turn one mounted Model / Cube

\* --------------------------------------------------- program constants
LogCapacity == 5        \* .slice(-5) in addError

\* Abstract pose values; 0 is the identity transform of a fresh object.
Poses == {1, 2}

\* Views of a viewer pose: monoscopic or one per eye.
ViewCounts == {1, 2}

Variants == {"App", "Simple"}

VARIABLES
    variant,          \* which component is mounted
    \* React state (AppState / SimpleWebXRState)
    checkPc,          \* "pending" while checkARSupport() awaits isSessionSupported
    isARSupported, isARSession, isLoading, error, instructions, runtimeErrors,
    clock,            \* abstract Date(): the timestamp of the next record, counted
                      \* from the moment the log was last empty
    \* startAR's position between its awaits
    startPc,
    \* refs
    sessionRef,       \* 0 = null, else the session id
    sceneGen,         \* rendererRef/sceneRef/cameraRef/reticleRef(/sphereRef): 0 = null,
                      \* else the id of the setupScene() call that made them
    viewerSpaceRef, localSpaceRef, hitTestSourceRef,
    spherePlaced,     \* spherePlacedRef (App)
    objects,          \* objectsRef (Simple): sequence of positions
    \* three.js objects
    reticle,          \* [visible, matrix] of reticleRef.current
    sphere,           \* [inScene, pose] of sphereRef.current (App)
    sceneObjs,        \* positions of the spheres that are children of sceneRef.current (Simple)
    animLoops,        \* renderers whose animation loop is onXRFrame
    \* platform
    granted,          \* number of sessions granted so far
    live,             \* sessions granted and not ended
    ending,           \* session whose "end" event is queued and not yet dispatched (0 = none)
    endCause,         \* "explicit" | "platform" | "none": who ended `ending`
    handlers,         \* sessions with the select and end listeners of startAR
    cancelled,        \* hit-test sources on which cancel() was called
    anchorsPending,   \* createAnchor() promises not yet settled
    \* the declarative component (XrHitCubeContainer / XrHitCube)
    hSupport,         \* isXRSupported: "unknown" (null) | "yes" | "no"
    hSession,         \* xrState.session: 0 = none, else the session id
    hGranted,         \* number of sessions the XR store was granted
    hModels,          \* React state `models`
    hPlaced,          \* React state `hasPlacedModel`
    hView,            \* what the last render saw: the values the closures and
                      \* the mounted JSX were made from
    hReticle,         \* the reticle mesh: [mounted, visible, pos]
    hRotation,        \* rotation.y of the mounted Model / Cube of each rendered
                      \* model, counted in useFrame ticks since it was mounted
    \* observation
    last              \* the operation that produced this state

vars == << variant, checkPc, isARSupported, isARSession, isLoading, error,
           instructions, runtimeErrors, clock, startPc, sessionRef, sceneGen,
           viewerSpaceRef, localSpaceRef, hitTestSourceRef, spherePlaced, objects,
           reticle, sphere, sceneObjs, animLoops, granted, live, ending, endCause,
           handlers, cancelled, anchorsPending,
           hSupport, hSession, hGranted, hModels, hPlaced, hView, hReticle,
           hRotation, last >>

\* The variables of the declarative component, and those of the imperative one.
hVars == << hSupport, hSession, hGranted, hModels, hPlaced, hView, hReticle,
           hRotation >>

impVars == << checkPc, isARSupported, isARSession, isLoading, error,
              instructions, runtimeErrors, clock, startPc, sessionRef, sceneGen,
              viewerSpaceRef, localSpaceRef, hitTestSourceRef, spherePlaced, objects,
              reticle, sphere, sceneObjs, animLoops, granted, live, ending, endCause,
              handlers, cancelled, anchorsPending >>

\* What no action of the imperative component changes.
fixedVars == << variant, hVars >>

\* Groups used by UNCHANGED.
uiVars      == << isARSupported, isARSession, isLoading, error, instructions >>
refVars     == << sessionRef, sceneGen, viewerSpaceRef, localSpaceRef, hitTestSourceRef >>
placeVars   == << spherePlaced, objects, sphere, sceneObjs >>
platVars    == << granted, live, ending, endCause, handlers, cancelled >>

\* ----------------------------------------------------------- observation
\* What the hit-test query of a frame tick returned: kind "none" when the tick
\* made no query (or the query threw), "empty" for no result, "first" when the
\* first result's pose resolved against local-floor, "unresolved" when
\* getPose returned null for it; `pose` is the first result.
NoQuery == [kind |-> "none", pose |-> 0]

\* `order` is the part of the history that outlives one step: what the start
\* in progress (or the last one that went through) has done so far, in order.
NoOrder == << >>

First(op, step, n, flag) ==
    [op |-> op, step |-> step, n |-> n, flag |-> flag, query |-> NoQuery,
     views |-> 0, order |-> NoOrder]

Last(op, step, n, flag) ==
    [op |-> op, step |-> step, n |-> n, flag |-> flag, query |-> NoQuery,
     views |-> 0, order |-> last.order]

Did(op, what) ==
    [Last(op, "-", 0, FALSE) EXCEPT !.order = last.order \o what]

Instr(text, n) == [text |-> text, n |-> n]

\* ------------------------------------------------------ diagnostics sink
LastN(s, k) == IF Len(s) <= k THEN s ELSE SubSeq(s, Len(s) - k + 1, Len(s))

\* An addError that never evicts.
AddError_NoEviction(log, rec) == Append(log, rec)

\* An addError that drops the new record when the log is full.
AddError_DropsNewest(log, rec) ==
    IF Len(log) < LogCapacity THEN Append(log, rec) ELSE log

\* A diagnostic record is "[timestamp] message"; the model keeps the timestamp,
\* which orders the records, and drops the message text.
\* addError: [...prev.runtimeErrors, record].slice(-5)
AddError(log, rec) == LastN(Append(log, rec), LogCapacity)

\* new Date(): every record gets a later timestamp than the one before it, so
\* that the records of the log can be told apart and their order read off.
\* `clock` is the timestamp of the next record; it restarts whenever the log is
\* emptied, and a handler can log only while timestamps up to MaxClock are left
\* (see Log).
NextClock(c) == c + 1

\* n calls of addError in a row.
RECURSIVE AddAll(_, _, _)
AddAll(log, c, n) ==
    IF n = 0 THEN log ELSE AddAll(AddError(log, c), NextClock(c), n - 1)

RECURSIVE TickN(_, _)
TickN(c, n) == IF n = 0 THEN c ELSE TickN(NextClock(c), n - 1)

Log(n) ==
    /\ TickN(clock, n) <= MaxClock + 1
    /\ runtimeErrors' = AddAll(runtimeErrors, clock, n)
    /\ clock' = TickN(clock, n)

\* clearErrors
ClearErrors ==
    /\ runtimeErrors # << >>
    /\ runtimeErrors' = << >>
    /\ clock' = 1
    /\ last' = Last("clearErrors", "-", 0, FALSE)
    /\ UNCHANGED << fixedVars, checkPc, uiVars, startPc, refVars, placeVars,
                    reticle, animLoops, platVars, anchorsPending >>

\* ------------------------------------------------------------------ Init
InitImperative ==
    /\ checkPc = "pending"
    /\ isARSupported = FALSE
    /\ isARSession = FALSE
    /\ isLoading = TRUE
    /\ error = "none"
    /\ instructions = Instr("checking", 0)
    /\ runtimeErrors = << >>
    /\ clock = 1
    /\ startPc = "idle"
    /\ sessionRef = 0
    /\ sceneGen = 0
    /\ viewerSpaceRef = 0
    /\ localSpaceRef = 0
    /\ hitTestSourceRef = 0
    /\ spherePlaced = FALSE
    /\ objects = << >>
    /\ reticle = [visible |-> FALSE, matrix |-> 0]
    /\ sphere = [inScene |-> FALSE, pose |-> 0]
    /\ sceneObjs = << >>
    /\ animLoops = {}
    /\ granted = 0
    /\ live = {}
    /\ ending = 0
    /\ endCause = "none"
    /\ handlers = {}
    /\ cancelled = {}
    /\ anchorsPending = 0

InitDeclarative ==
    /\ hSupport = "unknown"
    /\ hSession = 0
    /\ hGranted = 0
    /\ hModels = << >>
    /\ hPlaced = FALSE
    /\ hView = [session |-> 0, models |-> << >>, placed |-> FALSE]
    /\ hReticle = [mounted |-> FALSE, visible |-> FALSE, pos |-> 0]
    /\ hRotation = << >>

Init ==
    /\ variant \in Variants
    /\ InitImperative
    /\ InitDeclarative
    /\ last = First("init", "-", 0, FALSE)

\* ------------------------------------------- Stage 1: capability check
\* checkARSupport: the outcome of navigator.xr / isSessionSupported.
CheckSupport ==
    /\ checkPc = "pending"
    /\ checkPc' = "done"
    /\ \E outcome \in {"noxr", "yes", "no", "throw"} :
         /\ isARSupported' = (outcome = "yes")
         /\ isLoading' = FALSE
         /\ error' = CASE outcome = "noxr"  -> "noWebXR"
                       [] outcome = "yes"   -> "none"
                       [] outcome = "no"    -> "notSupported"
                       [] outcome = "throw" -> "checkFailed"
         /\ instructions' = CASE outcome = "noxr"  -> Instr("useCompatibleBrowser", 0)
                              [] outcome = "yes"   -> Instr("supported", 0)
                              [] outcome = "no"    -> Instr("notSupported", 0)
                              [] outcome = "throw" -> Instr("unableToDetect", 0)
         \* part_002 also records the failure; App.tsx does not
         /\ IF outcome = "throw" /\ variant = "Simple"
              THEN Log(1)
              ELSE UNCHANGED << runtimeErrors, clock >>
         /\ last' = Last("checkSupport", outcome, 0, FALSE)
    /\ UNCHANGED << fixedVars, isARSession, startPc, refVars, placeVars, reticle,
                    animLoops, platVars, anchorsPending >>

\* A Start control that does not look at isARSupported.
StartEnabled_IgnoresSupport == ~isLoading /\ ~isARSession

\* --------------------------------------------- Stage 2-5: startAR
\* The "Start AR" button: rendered when !isARSession, disabled unless
\* isARSupported && !isLoading.
StartEnabled == isARSupported /\ ~isLoading /\ ~isARSession

\* startAR up to its first await (requestSession).
StartAR ==
    /\ StartEnabled
    /\ isLoading' = TRUE
    /\ instructions' = Instr("starting", 0)
    /\ startPc' = "request"
    /\ last' = [Last("startAR", "-", Cardinality(live), FALSE) EXCEPT !.order = NoOrder]
    /\ UNCHANGED << fixedVars, checkPc, isARSupported, isARSession, error,
                    runtimeErrors, clock, refVars, placeVars, reticle, animLoops,
                    platVars, anchorsPending >>

\* A catch block that reports the failure and leaves the loading flag on.
CatchStart_KeepsLoading(step, extra) ==
    /\ Log(extra + 1)
    /\ error' = "startFailed"
    /\ instructions' = Instr("startFailed", 0)
    /\ startPc' = "idle"
    /\ last' = [Last("startFailed", step, 0, FALSE) EXCEPT !.order = NoOrder]
    /\ UNCHANGED << fixedVars, checkPc, isARSupported, isARSession, isLoading >>

\* The catch block of startAR: one diagnostic record, loading off, error text.
\* `extra` counts the records written on the way (setupScene logs its own failure).
CatchStart(step, extra) ==
    /\ Log(extra + 1)
    /\ isLoading' = FALSE
    /\ error' = "startFailed"
    /\ instructions' = Instr("startFailed", 0)
    /\ startPc' = "idle"
    /\ last' = [Last("startFailed", step, 0, FALSE) EXCEPT !.order = NoOrder]
    /\ UNCHANGED << fixedVars, checkPc, isARSupported, isARSession >>

\* requestSession rejects: the mode or a required feature is refused, the user
\* denies it, or another immersive session is still active.
RequestSessionReject ==
    /\ startPc = "request"
    /\ CatchStart("request", 0)
    /\ UNCHANGED << refVars, placeVars, reticle, animLoops, platVars, anchorsPending >>

\* requestSession resolves; sessionRef is set; setupScene()/initScene() runs.
\* The platform grants an immersive session only when none is active.
RequestSessionResolve ==
    /\ startPc = "request"
    /\ live = {} /\ ending = 0
    /\ granted < MaxSessions
    /\ LET s == granted + 1 IN
       /\ granted' = s
       /\ live' = {s}
       /\ sessionRef' = s
       /\ \E sceneOk \in BOOLEAN :
            IF sceneOk
            THEN \* a new renderer, scene, camera, reticle (and sphere)
                 /\ sceneGen' = s
                 /\ reticle' = [visible |-> FALSE, matrix |-> 0]
                 /\ sphere' = [inScene |-> FALSE, pose |-> 0]
                 /\ sceneObjs' = << >>
                 /\ startPc' = "compat"
                 /\ last' = Did("sessionGranted", << "renderer" >>)
                 /\ UNCHANGED << uiVars, runtimeErrors, clock, fixedVars, checkPc >>
            ELSE \* setupScene caught an exception, logged it and returned null
                 /\ CatchStart("scene", 1)
                 /\ UNCHANGED << sceneGen, reticle, sphere, sceneObjs >>
    /\ UNCHANGED << viewerSpaceRef, localSpaceRef, hitTestSourceRef, spherePlaced,
                    objects, animLoops, ending, endCause, handlers, cancelled,
                    anchorsPending >>

\* makeXRCompatible rejects.
MakeCompatibleReject ==
    /\ startPc = "compat"
    /\ CatchStart("compat", 0)
    /\ UNCHANGED << refVars, placeVars, reticle, animLoops, platVars, anchorsPending >>

\* makeXRCompatible resolves; new XRWebGLLayer(session, gl) and
\* updateRenderState follow (both throw on an ended session); then
\* requestReferenceSpace("viewer") is called.
MakeCompatibleResolve ==
    /\ startPc = "compat"
    /\ \E layerOk \in BOOLEAN :
         IF layerOk /\ sessionRef \in live
         THEN /\ startPc' = "viewer"
              /\ last' = Did("layerSet", << "xrCompatible", "baseLayer" >>)
              /\ UNCHANGED << uiVars, runtimeErrors, clock, fixedVars, checkPc >>
         ELSE CatchStart("layer", 0)
    /\ UNCHANGED << refVars, placeVars, reticle, animLoops, platVars, anchorsPending >>

\* requestReferenceSpace("viewer") rejects.
ViewerSpaceReject ==
    /\ startPc = "viewer"
    /\ CatchStart("viewer", 0)
    /\ UNCHANGED << refVars, placeVars, reticle, animLoops, platVars, anchorsPending >>

\* requestReferenceSpace("viewer") resolves; requestReferenceSpace("local-floor")
\* is called, and rejects at once on an ended session.
ViewerSpaceResolve ==
    /\ startPc = "viewer"
    /\ IF sessionRef \in live
       THEN /\ startPc' = "local"
            /\ last' = Did("viewerSpace", << "viewerSpace" >>)
            /\ UNCHANGED << uiVars, runtimeErrors, clock, fixedVars, checkPc >>
       ELSE CatchStart("local", 0)
    /\ UNCHANGED << refVars, placeVars, reticle, animLoops, platVars, anchorsPending >>

\* requestReferenceSpace("local-floor") rejects.
LocalSpaceReject ==
    /\ startPc = "local"
    /\ CatchStart("local", 0)
    /\ UNCHANGED << refVars, placeVars, reticle, animLoops, platVars, anchorsPending >>

\* requestReferenceSpace("local-floor") resolves; the space refs are stored
\* (part_002 keeps no viewerSpaceRef); requestHitTestSource is called if the
\* session has it, else "Hit testing not supported" is thrown.
LocalSpaceResolve ==
    /\ startPc = "local"
    /\ viewerSpaceRef' = IF variant = "App" THEN sessionRef ELSE viewerSpaceRef
    /\ localSpaceRef' = sessionRef
    /\ \E hasHitTest \in BOOLEAN :
         IF hasHitTest /\ sessionRef \in live
         THEN /\ startPc' = "hit"
              /\ last' = Did("localSpace", << "localFloorSpace" >>)
              /\ UNCHANGED << uiVars, runtimeErrors, clock, fixedVars, checkPc >>
         ELSE CatchStart("hit", 0)
    /\ UNCHANGED << sessionRef, sceneGen, hitTestSourceRef, placeVars, reticle,
                    animLoops, platVars, anchorsPending >>

\* requestHitTestSource rejects.
HitSourceReject ==
    /\ startPc = "hit"
    /\ CatchStart("hit", 0)
    /\ UNCHANGED << refVars, placeVars, reticle, animLoops, platVars, anchorsPending >>

\* renderer.setAnimationLoop(onXRFrame) on rendererRef's renderer.
RegisterLoop(loops) == loops \cup {sceneGen}

\* A start that registers the frame loop before the two listeners.
Registrations_LoopFirst == << "hitTestSource", "animationLoop", "select", "end" >>

\* What startAR does once requestHitTestSource has resolved, in source order:
\* the source is stored, addEventListener("select"), addEventListener("end"),
\* renderer.setAnimationLoop(onXRFrame).
Registrations == << "hitTestSource", "select", "end", "animationLoop" >>

\* requestHitTestSource resolves: the source is stored, the select and end
\* listeners are added, the frame loop is started, the UI goes active.
HitSourceResolve ==
    /\ startPc = "hit"
    /\ hitTestSourceRef' = sessionRef
    /\ handlers' = handlers \cup {sessionRef}
    /\ animLoops' = RegisterLoop(animLoops)
    /\ isARSession' = TRUE
    /\ isLoading' = FALSE
    /\ instructions' = Instr("point", 0)
    /\ startPc' = "idle"
    /\ last' = Did("started", Registrations)
    /\ UNCHANGED << fixedVars, checkPc, isARSupported, error, runtimeErrors, clock,
                    sessionRef, sceneGen, viewerSpaceRef, localSpaceRef, placeVars,
                    reticle, granted, live, ending, endCause, cancelled,
                    anchorsPending >>

StartSteps ==
    \/ StartAR
    \/ RequestSessionReject
    \/ RequestSessionResolve
    \/ MakeCompatibleReject
    \/ MakeCompatibleResolve
    \/ ViewerSpaceReject
    \/ ViewerSpaceResolve
    \/ LocalSpaceReject
    \/ LocalSpaceResolve
    \/ HitSourceReject
    \/ HitSourceResolve

\* ------------------------------------------------- Stage 9: ending
\* Spheres currently in the render graph (children of sceneRef.current).
PlacedInScene == IF variant = "App" THEN (IF sphere.inScene THEN 1 ELSE 0)
                 ELSE Len(sceneObjs)

\* Placement bookkeeping is in its initial, Empty state.
PlacementEmpty == ~spherePlaced /\ objects = << >>

\* The platform ends the session on its own (user leaves, device lost):
\* the session is marked ended and its "end" event is queued.
PlatformEnd ==
    /\ \E s \in live :
         /\ live' = live \ {s}
         /\ ending' = s
         /\ endCause' = "platform"
    /\ last' = Last("platformEnd", "-", 0, FALSE)
    /\ UNCHANGED << fixedVars, checkPc, uiVars, runtimeErrors, clock, startPc, refVars,
                    placeVars, reticle, animLoops, granted, handlers, cancelled,
                    anchorsPending >>

\* endAR's catch block: App.tsx only warns on the console, part_002 records it.
CatchEnd ==
    IF variant = "Simple" THEN Log(1)
    ELSE UNCHANGED << runtimeErrors, clock >>

\* The "End AR" button (rendered while isARSession): endAR calls
\* sessionRef.current.end().  On a session that is not ended the platform marks
\* it ended and queues its "end" event; on a session that already ended the
\* promise rejects with InvalidStateError.
EndAR ==
    /\ isARSession
    /\ IF sessionRef = 0
       THEN /\ last' = Last("endAR", "nosession", 0, FALSE)
            /\ UNCHANGED << live, ending, endCause, runtimeErrors, clock >>
       ELSE IF sessionRef \in live
       THEN /\ live' = live \ {sessionRef}
            /\ ending' = sessionRef
            /\ endCause' = "explicit"
            /\ last' = Last("endAR", "requested", 0, FALSE)
            /\ UNCHANGED << runtimeErrors, clock >>
       ELSE /\ CatchEnd
            /\ last' = Last("endAR", "rejected", 0, FALSE)
            /\ UNCHANGED << live, ending, endCause >>
    /\ UNCHANGED << fixedVars, checkPc, uiVars, startPc, refVars, placeVars, reticle,
                    animLoops, granted, handlers, cancelled, anchorsPending >>

\* The end listener's renderer cleanup: part_002 calls
\* rendererRef.current.setAnimationLoop(null); App.tsx has no such call.
EndListenerLoops(loops) ==
    IF variant = "Simple" /\ sceneGen # 0 THEN loops \ {sceneGen} ELSE loops

\* A cleanup that resets the flag and leaves the sphere in the scene.
EndListenerSphere_LeavesInScene(sph) == sph

\* The end listener's placement cleanup, App.tsx: spherePlacedRef reset, the
\* sphere removed from the scene.
EndListenerSphere(sph) == [sph EXCEPT !.inScene = FALSE]

\* part_002: objectsRef.current.forEach(obj => scene.remove(obj)): the scene
\* keeps the children that are not in objectsRef.
RECURSIVE RemoveAll(_, _)
RemoveAll(children, objs) ==
    IF children = << >> THEN << >>
    ELSE IF \E i \in 1..Len(objs) : objs[i] = Head(children)
         THEN RemoveAll(Tail(children), objs)
         ELSE << Head(children) >> \o RemoveAll(Tail(children), objs)

\* A cleanup that forgets the object placed last.
EndListenerObjects_SkipsLast(children, objs) ==
    IF objs = << >> THEN children
    ELSE RemoveAll(children, SubSeq(objs, 1, Len(objs) - 1))

EndListenerObjects(children, objs) == RemoveAll(children, objs)

\* A listener that cancels the hit-test source and keeps the handle to it.
EndListener_KeepsSource ==
    /\ isARSession' = FALSE
    /\ instructions' = Instr("ended", 0)
    /\ cancelled' = IF hitTestSourceRef # 0 THEN cancelled \cup {hitTestSourceRef}
                    ELSE cancelled
    /\ animLoops' = EndListenerLoops(animLoops)
    /\ sessionRef' = 0
    /\ IF variant = "App"
       THEN /\ spherePlaced' = FALSE
            /\ sphere' = EndListenerSphere(sphere)
            /\ UNCHANGED << objects, sceneObjs >>
       ELSE /\ sceneObjs' = EndListenerObjects(sceneObjs, objects)
            /\ objects' = << >>
            /\ UNCHANGED << spherePlaced, sphere >>
    /\ UNCHANGED << isARSupported, isLoading, error, sceneGen, viewerSpaceRef,
                    localSpaceRef, hitTestSourceRef >>

\* A listener that cleans the handles up and leaves the UI flag as it is.
EndListener_LeavesActive ==
    /\ instructions' = Instr("ended", 0)
    /\ cancelled' = IF hitTestSourceRef # 0 THEN cancelled \cup {hitTestSourceRef}
                    ELSE cancelled
    /\ hitTestSourceRef' = 0
    /\ animLoops' = EndListenerLoops(animLoops)
    /\ sessionRef' = 0
    /\ IF variant = "App"
       THEN /\ spherePlaced' = FALSE
            /\ sphere' = EndListenerSphere(sphere)
            /\ UNCHANGED << objects, sceneObjs >>
       ELSE /\ sceneObjs' = EndListenerObjects(sceneObjs, objects)
            /\ objects' = << >>
            /\ UNCHANGED << spherePlaced, sphere >>
    /\ UNCHANGED << isARSupported, isARSession, isLoading, error, sceneGen,
                    viewerSpaceRef, localSpaceRef >>

\* The listener startAR adds for the session's "end" event.
EndListener ==
    /\ isARSession' = FALSE
    /\ instructions' = Instr("ended", 0)
    /\ cancelled' = IF hitTestSourceRef # 0 THEN cancelled \cup {hitTestSourceRef}
                    ELSE cancelled
    /\ hitTestSourceRef' = 0
    /\ animLoops' = EndListenerLoops(animLoops)
    /\ sessionRef' = 0
    /\ IF variant = "App"
       THEN /\ spherePlaced' = FALSE
            /\ sphere' = EndListenerSphere(sphere)
            /\ UNCHANGED << objects, sceneObjs >>
       ELSE /\ sceneObjs' = EndListenerObjects(sceneObjs, objects)
            /\ objects' = << >>
            /\ UNCHANGED << spherePlaced, sphere >>
    /\ UNCHANGED << isARSupported, isLoading, error, sceneGen, viewerSpaceRef,
                    localSpaceRef >>

\* A listener that only runs for the ends endAR asked for.
ListenerFires_ExplicitOnly == ending \in handlers /\ endCause = "explicit"

\* session.addEventListener("end", ...): the listener runs for every end of the
\* session it was added to, whoever ended it.
ListenerFires == ending \in handlers

\* The queued "end" event is dispatched to the listeners the session has now.
DispatchEnd ==
    /\ ending # 0
    /\ ending' = 0
    /\ endCause' = "none"
    /\ last' = Last("endEvent", endCause, PlacedInScene, ListenerFires)
    /\ IF ListenerFires
       THEN EndListener
       ELSE UNCHANGED << uiVars, refVars, placeVars, animLoops, cancelled >>
    /\ UNCHANGED << fixedVars, checkPc, runtimeErrors, clock, startPc, reticle,
                    granted, live, handlers, anchorsPending >>

\* ------------------------------------------- Stage 6: per-frame loop
\* Ordered hit-test result lists: each result is the pose it resolves to.
RECURSIVE SeqsUpTo(_, _)
SeqsUpTo(S, n) ==
    IF n = 0 THEN {<< >>}
    ELSE LET shorter == SeqsUpTo(S, n - 1) IN
         shorter \cup {Append(q, x) : q \in {r \in shorter : Len(r) = n - 1}, x \in S}

HitLists == SeqsUpTo(Poses, MaxHits)

\* What one invocation of the frame callback is handed by the platform.
\*   session : the frame's session, 0 when the callback is driven without an
\*             XRFrame (the renderer's own loop outside a session)
\*   pose    : getViewerPose(localSpace) resolves
\*   views   : number of views of the viewer pose
\*   hits    : getHitTestResults(hitTestSource)
\*   hitPose : hits[0].getPose(localSpace) resolves
\*   throwAt : the platform call that throws in this tick, if any
\* Fields a tick cannot read are fixed, so that each input stands for one case.
FrameShapes ==
    { fr \in [pose : BOOLEAN, views : ViewCounts, hits : HitLists, hitPose : BOOLEAN,
              throwAt : {"none", "bind", "hit", "render"}] :
        /\ ~fr.pose => fr.views = 1 /\ fr.hits = << >> /\ fr.throwAt \in {"none", "bind"}
        /\ fr.hits = << >> => fr.hitPose
        /\ ~fr.hitPose => Len(fr.hits) = 1
        /\ fr.throwAt # "none" => fr.views = 1
        /\ fr.throwAt \in {"bind", "hit"} => fr.hits = << >> }

\* The frames of the running session, and the tick without an XRFrame.
Frames ==
    { [session |-> 0, pose |-> FALSE, views |-> 1, hits |-> << >>, hitPose |-> TRUE,
       throwAt |-> "none"] }
    \cup { [session |-> s, pose |-> f.pose, views |-> f.views, hits |-> f.hits,
            hitPose |-> f.hitPose, throwAt |-> f.throwAt] :
              s \in live, f \in FrameShapes }

\* session.renderState.baseLayer is set once updateRenderState has run.
HasLayer == startPc # "compat"

\* A reticle update that leaves the reticle as it is when there is no result.
ReticleAfter_KeepsOnEmpty(ret, hits, hitPose) ==
    IF Len(hits) > 0 /\ hitPose THEN [visible |-> TRUE, matrix |-> hits[1]] ELSE ret

\* A reticle update that takes the last result instead of the first.
ReticleAfter_UsesLast(ret, hits, hitPose) ==
    IF Len(hits) > 0
    THEN IF hitPose THEN [visible |-> TRUE, matrix |-> hits[Len(hits)]] ELSE ret
    ELSE [ret EXCEPT !.visible = FALSE]

\* The reticle after the hit-test part of a tick (App.tsx 196-211, part_002 149-163).
ReticleAfter(ret, hits, hitPose) ==
    IF Len(hits) > 0
    THEN IF hitPose THEN [visible |-> TRUE, matrix |-> hits[1]] ELSE ret
    ELSE [ret EXCEPT !.visible = FALSE]

\* getViewerPose / getHitTestResults throw InvalidStateError when handed a space
\* or source of another session.
PoseThrows(fr) == localSpaceRef # fr.session
HitThrows(fr)  == hitTestSourceRef # fr.session \/ fr.throwAt = "hit"

\* The body of onXRFrame's try block as a function of the frame: the reticle it
\* leaves, the render passes it issued, whether it threw, how it ended, what
\* its hit-test query returned, and the number of views of the viewer pose it
\* resolved (0 when it resolved none).
FrameResult(ret, renders, threw, how, query, views) ==
    [reticle |-> ret, renders |-> renders, threw |-> threw, how |-> how,
     query |-> query, views |-> views]

\* frame.getHitTestResults(hitTestSource) and hits[0].getPose(localSpace), as
\* the tick saw them.
Queried(fr) ==
    IF hitTestSourceRef = 0 THEN NoQuery
    ELSE IF fr.hits = << >> THEN [kind |-> "empty", pose |-> 0]
    ELSE IF fr.hitPose THEN [kind |-> "first", pose |-> fr.hits[1]]
    ELSE [kind |-> "unresolved", pose |-> fr.hits[1]]

\* A tick that ends early and hides the reticle on its way out.
SkipTick_HidesReticle(how) ==
    FrameResult([reticle EXCEPT !.visible = FALSE], 0, FALSE, how, NoQuery, 0)

\* A tick that issues a render pass although it ends early.
SkipTick_StillRenders(how) == FrameResult(reticle, 1, FALSE, how, NoQuery, 0)

\* A tick that ends early, on a `return` or past `if (viewerPose)`: nothing
\* is queried, rendered or thrown.
SkipTick(how) == FrameResult(reticle, 0, FALSE, how, NoQuery, 0)

\* A tick that renders once, whatever the number of views.
RenderPasses_OncePerTick(fr) == 1

\* for (const view of viewerPose.views) { ...; renderer.render(scene, camera) }
RenderPasses(fr) == fr.views

OnXRFrameApp(fr) ==
    IF fr.session = 0 THEN FrameResult(reticle, 0, TRUE, "undefined", NoQuery, 0)
    ELSE IF sceneGen = 0 \/ localSpaceRef = 0 THEN SkipTick("unset")
    ELSE IF HasLayer /\ fr.throwAt = "bind"
         THEN FrameResult(reticle, 0, TRUE, "threw", NoQuery, 0)
    ELSE IF PoseThrows(fr) THEN FrameResult(reticle, 0, TRUE, "threw", NoQuery, 0)
    ELSE IF ~fr.pose THEN SkipTick("nopose")
    ELSE IF hitTestSourceRef # 0 /\ HitThrows(fr)
         THEN FrameResult(reticle, 0, TRUE, "threw", NoQuery, fr.views)
    ELSE LET ret == IF hitTestSourceRef # 0
                    THEN ReticleAfter(reticle, fr.hits, fr.hitPose) ELSE reticle
         IN  IF fr.throwAt = "render"
             THEN FrameResult(ret, 0, TRUE, "threw", Queried(fr), fr.views)
             ELSE FrameResult(ret, RenderPasses(fr), FALSE, "rendered", Queried(fr),
                              fr.views)

OnXRFrameSimple(fr) ==
    IF fr.session = 0 THEN SkipTick("undefined")
    ELSE IF sceneGen = 0 \/ localSpaceRef = 0 THEN SkipTick("unset")
    ELSE IF sessionRef = 0 \/ sessionRef # fr.session THEN SkipTick("othersession")
    ELSE IF PoseThrows(fr) THEN FrameResult(reticle, 0, TRUE, "threw", NoQuery, 0)
    ELSE IF ~fr.pose THEN SkipTick("nopose")
    ELSE IF hitTestSourceRef # 0 /\ HitThrows(fr)
         THEN FrameResult(reticle, 0, TRUE, "threw", NoQuery, fr.views)
    ELSE LET ret == IF hitTestSourceRef # 0
                    THEN ReticleAfter(reticle, fr.hits, fr.hitPose) ELSE reticle
         IN  IF ~HasLayer THEN FrameResult(ret, 0, FALSE, "nolayer", Queried(fr), fr.views)
             ELSE IF fr.throwAt \in {"bind", "render"}
             THEN FrameResult(ret, 0, TRUE, "threw", Queried(fr), fr.views)
             ELSE FrameResult(ret, RenderPasses(fr), FALSE, "rendered", Queried(fr),
                              fr.views)

\* A catch block that also stops the animation loop.
CatchFrame_StopsLoop(threw) ==
    /\ IF threw
       THEN \E sampled \in BOOLEAN :
              IF sampled THEN Log(1) ELSE UNCHANGED << runtimeErrors, clock >>
       ELSE UNCHANGED << runtimeErrors, clock >>
    /\ animLoops' = IF threw THEN {} ELSE animLoops
    /\ UNCHANGED << sessionRef, isARSession >>

\* onXRFrame's catch block: the error is logged when Math.random() < 0.01, and
\* nothing else is done.
CatchFrame(threw) ==
    /\ IF threw
       THEN \E sampled \in BOOLEAN :
              IF sampled THEN Log(1) ELSE UNCHANGED << runtimeErrors, clock >>
       ELSE UNCHANGED << runtimeErrors, clock >>
    /\ UNCHANGED << animLoops, sessionRef, isARSession >>

\* What the platform can make of one tick in the current state.
FrameOutcomes ==
    { IF variant = "App" THEN OnXRFrameApp(fr) ELSE OnXRFrameSimple(fr) : fr \in Frames }

\* A tick that rebuilds the render graph without the placed objects.
OnXRFrame_DropsPlaced ==
    /\ animLoops # {}
    /\ \E r \in FrameOutcomes :
         /\ reticle' = r.reticle
         /\ CatchFrame(r.threw)
         /\ last' = [Last("frame", r.how, r.renders, r.threw)
                        EXCEPT !.query = r.query, !.views = r.views]
    /\ sphere' = [sphere EXCEPT !.inScene = FALSE]
    /\ sceneObjs' = << >>
    /\ UNCHANGED << fixedVars, checkPc, isARSupported, isLoading, error, instructions,
                    startPc, sceneGen, viewerSpaceRef, localSpaceRef, hitTestSourceRef,
                    spherePlaced, objects, platVars, anchorsPending >>

\* One tick of a registered animation loop.
OnXRFrame ==
    /\ animLoops # {}
    /\ \E r \in FrameOutcomes :
         /\ reticle' = r.reticle
         /\ CatchFrame(r.threw)
         /\ last' = [Last("frame", r.how, r.renders, r.threw)
                        EXCEPT !.query = r.query, !.views = r.views]
    /\ UNCHANGED << fixedVars, checkPc, isARSupported, isLoading, error, instructions,
                    startPc, sceneGen, viewerSpaceRef, localSpaceRef, hitTestSourceRef,
                    placeVars, platVars, anchorsPending >>

\* ------------------------------------------- Stage 7: placement
\* What a select event carries: the hit-test results of its frame, whether the
\* first result's pose resolves, whether a platform call throws, and whether
\* frame.createAnchor and hit.createAnchor exist and return a promise.
Selects ==
    { ev \in [hits : HitLists, hitPose : BOOLEAN, throws : BOOLEAN, anchor : BOOLEAN] :
        /\ ev.hits = << >> => ev.hitPose
        /\ ~ev.hitPose => Len(ev.hits) = 1
        /\ ev.throws => ev.hits = << >>
        /\ (ev.throws \/ ev.hits = << >> \/ ~ev.hitPose) => ~ev.anchor }

\* The body of onSelect's try block as a function of the event: how it ended,
\* the pose it placed at, whether it asked for an anchor.
SelectResult(how, pose, anchor) == [how |-> how, pose |-> pose, anchor |-> anchor]

\* App.tsx onSelect: one sphere, placed at the first hit of the event's frame.
OnSelectApp(ev) ==
    IF hitTestSourceRef = 0 \/ localSpaceRef = 0 \/ sceneGen = 0
    THEN SelectResult("unset", 0, FALSE)
    ELSE IF spherePlaced THEN SelectResult("already", 0, FALSE)
    ELSE IF ev.throws THEN SelectResult("threw", 0, FALSE)
    ELSE IF Len(ev.hits) > 0 /\ ev.hitPose
    THEN SelectResult("placed", ev.hits[1], ev.anchor)
    ELSE SelectResult("nohit", 0, FALSE)

\* part_002 onSelect: a new sphere at the reticle's position, every time.
OnSelectSimple(ev) ==
    IF sceneGen = 0 THEN SelectResult("unset", 0, FALSE)
    ELSE IF ~reticle.visible THEN SelectResult("nohit", 0, FALSE)
    ELSE IF ev.throws THEN SelectResult("threw", 0, FALSE)
    ELSE SelectResult("placed", reticle.matrix, FALSE)

\* event.frame.getHitTestResults(hitTestSource) and hits[0].getPose(localSpace):
\* what the frame attached to the select event holds, read or not.
EventQuery(ev) ==
    IF ev.hits = << >> THEN [kind |-> "empty", pose |-> 0]
    ELSE IF ev.hitPose THEN [kind |-> "first", pose |-> ev.hits[1]]
    ELSE [kind |-> "unresolved", pose |-> ev.hits[1]]

\* An outcome beside what the event's frame held.
OfEvent(r, ev) ==
    [how |-> r.how, pose |-> r.pose, anchor |-> r.anchor, query |-> EventQuery(ev)]

SelectOutcomes ==
    { OfEvent(IF variant = "App" THEN OnSelectApp(ev) ELSE OnSelectSimple(ev), ev) :
        ev \in Selects }

\* The sphere mesh part_002 creates: `id` tells the meshes of a session apart.
NewObject(pos) == [id |-> Len(objects) + 1, pos |-> pos]

\* A select event of a session that is running and has the listener.  The
\* number of spheres of one session is bounded in part_002's model.
OnSelect ==
    /\ live \cap handlers # {}
    /\ variant = "Simple" => Len(objects) < MaxObjects
    /\ \E r \in SelectOutcomes :
         /\ last' = [Last("select", r.how, r.pose, r.anchor) EXCEPT !.query = r.query]
         /\ IF r.how = "threw" THEN Log(1) ELSE UNCHANGED << runtimeErrors, clock >>
         /\ IF r.how # "placed"
            THEN UNCHANGED << placeVars, instructions, anchorsPending >>
            ELSE IF variant = "App"
            THEN /\ sphere' = [inScene |-> TRUE, pose |-> r.pose]
                 /\ spherePlaced' = TRUE
                 /\ instructions' = Instr("placed", 0)
                 /\ anchorsPending' = IF r.anchor THEN anchorsPending + 1
                                      ELSE anchorsPending
                 /\ UNCHANGED << objects, sceneObjs >>
            ELSE /\ sceneObjs' = Append(sceneObjs, NewObject(r.pose))
                 /\ objects' = Append(objects, NewObject(r.pose))
                 /\ instructions' = Instr("placed", Len(objects) + 1)
                 /\ UNCHANGED << spherePlaced, sphere, anchorsPending >>
    /\ UNCHANGED << fixedVars, checkPc, isARSupported, isARSession, isLoading, error,
                    startPc, refVars, reticle, animLoops, platVars >>

\* An anchor failure that rolls the placement back.
AnchorSettle_RollsBack ==
    /\ anchorsPending > 0
    /\ anchorsPending' = anchorsPending - 1
    /\ \E ok \in BOOLEAN :
         /\ IF ok THEN UNCHANGED << runtimeErrors, clock >> ELSE Log(1)
         /\ sphere' = IF ok THEN sphere ELSE [sphere EXCEPT !.inScene = FALSE]
         /\ spherePlaced' = (ok /\ spherePlaced)
         /\ last' = Last("anchor", IF ok THEN "created" ELSE "failed", 0, ~ok)
    /\ UNCHANGED << fixedVars, checkPc, uiVars, startPc, refVars, objects, sceneObjs,
                    reticle, animLoops, platVars >>

\* hit.createAnchor's promise settles: success is only logged to the console,
\* failure goes to the diagnostics sink.
AnchorSettle ==
    /\ anchorsPending > 0
    /\ anchorsPending' = anchorsPending - 1
    /\ \E ok \in BOOLEAN :
         /\ IF ok THEN UNCHANGED << runtimeErrors, clock >> ELSE Log(1)
         /\ last' = Last("anchor", IF ok THEN "created" ELSE "failed", 0, ~ok)
    /\ UNCHANGED << fixedVars, checkPc, uiVars, startPc, refVars, placeVars, reticle,
                    animLoops, platVars >>

\* ------------------------------------------- the declarative component
\* XrHitCubeContainer mounts XrHitCube once, inside the Canvas, and never
\* unmounts it: its React state lives across sessions.  The XR store owns the
\* session; the component only reads xrState.session.

\* useEffect of the container: isSessionSupported decides isXRSupported.
HCheckSupport ==
    /\ hSupport = "unknown"
    /\ \E outcome \in {"noxr", "yes", "no"} :
         /\ hSupport' = IF outcome = "yes" THEN "yes" ELSE "no"
         /\ last' = Last("hCheck", outcome, 0, outcome = "yes")
    /\ UNCHANGED << variant, impVars, hSession, hGranted, hModels, hPlaced, hView,
                    hReticle, hRotation >>

\* The "Enter AR" button: XrHitCubeContainer.tsx has disabled={!isXRSupported};
\* the container of part_004 has no support check and no `disabled` at all.
HStartEnabled == IF variant = "Unchecked" THEN TRUE ELSE hSupport = "yes"

\* The button's onClick: store.enterAR() asks the platform for a session,
\* which grants one only when none is running.
HEnterAR ==
    /\ HStartEnabled
    /\ hSession = 0
    /\ hGranted < MaxSessions
    /\ \E ok \in BOOLEAN :
         /\ hSession' = IF ok THEN hGranted + 1 ELSE 0
         /\ hGranted' = IF ok THEN hGranted + 1 ELSE hGranted
         /\ last' = Last("hEnter", IF ok THEN "granted" ELSE "rejected", hGranted, ok)
    /\ UNCHANGED << variant, impVars, hSupport, hModels, hPlaced, hView, hReticle,
                    hRotation >>

\* The session ends (by the user or the platform): the store drops it.
\* Nothing in the component runs on the end besides the re-render.
HSessionEnd ==
    /\ hSession # 0
    /\ hSession' = 0
    /\ last' = Last("hEnd", "-", Len(hModels), hPlaced)
    /\ UNCHANGED << variant, impVars, hSupport, hGranted, hModels, hPlaced, hView,
                    hReticle, hRotation >>

\* What the component's state is now, as the next render will see it.
HCurrent == [session |-> hSession, models |-> hModels, placed |-> hPlaced]

\* The JSX mounts the reticle mesh iff xrState.session && !hasPlacedModel.
HReticleMounted(v) == v.session # 0 /\ ~v.placed

\* The models on screen: xrState.session && models.map(...), as last rendered.
HRendered == IF hView.session # 0 THEN hView.models ELSE << >>

\* The Model / Cube elements are keyed by id: an element that is in the list
\* again keeps its mounted group (and the rotation written to it), a new one
\* is mounted unrotated.  Within a session the rendered list only grows at
\* its end; without a session nothing of it is mounted.
Remount(rot, models) ==
    [i \in 1..Len(models) |-> IF i <= Len(rot) THEN rot[i] ELSE 0]

\* A re-render after a state or store change: the closures and the JSX are
\* rebuilt from the current values.  A mesh that stays mounted keeps what was
\* written to it imperatively (the prop visible={false} did not change); a
\* mesh mounted anew starts hidden; an unmounted one leaves the ref null.
HRender ==
    /\ hView # HCurrent
    /\ hView' = HCurrent
    /\ hReticle' = IF ~HReticleMounted(HCurrent)
                   THEN [mounted |-> FALSE, visible |-> FALSE, pos |-> 0]
                   ELSE IF hReticle.mounted THEN hReticle
                   ELSE [mounted |-> TRUE, visible |-> FALSE, pos |-> 0]
    /\ hRotation' = Remount(hRotation, IF HCurrent.session # 0 THEN HCurrent.models
                                        ELSE << >>)
    /\ last' = Last("hRender", "-", Len(HCurrent.models), HCurrent.session # 0)
    /\ UNCHANGED << variant, impVars, hSupport, hSession, hGranted, hModels, hPlaced >>

\* The useXRHitTest callback, run on the frames of a session with the
\* closure of the last render.
HHitTest ==
    /\ hSession # 0
    /\ \E results \in HitLists, matrixOk \in BOOLEAN :
         /\ IF Len(results) > 0 /\ hReticle.mounted /\ ~hView.placed
            THEN IF matrixOk
                 THEN hReticle' = [hReticle EXCEPT !.visible = TRUE, !.pos = results[1]]
                 ELSE hReticle' = hReticle
            ELSE IF hReticle.mounted
                 THEN hReticle' = [hReticle EXCEPT !.visible = FALSE]
                 ELSE hReticle' = hReticle
         /\ last' = Last("hHit", "-", Len(results), matrixOk)
    /\ UNCHANGED << variant, impVars, hSupport, hSession, hGranted, hModels, hPlaced,
                    hView, hRotation >>

\* The useFrame callback of every mounted Model / Cube, run on each rendered
\* frame: rotation.y += delta * k.
HUseFrame ==
    /\ Len(hRotation) > 0
    /\ \A i \in 1..Len(hRotation) : hRotation[i] < MaxTurns
    /\ hRotation' = [i \in 1..Len(hRotation) |-> hRotation[i] + 1]
    /\ last' = Last("hFrame", "-", Len(hRotation), FALSE)
    /\ UNCHANGED << variant, impVars, hSupport, hSession, hGranted, hModels, hPlaced,
                    hView, hReticle >>

\* A model as placeModel records it; the session it was placed in is kept
\* beside the position to tell the sessions' content apart.
HNewModel(pos) == [pos |-> pos, session |-> hSession]

\* placeModel, the reticle mesh's onPointerDown, with the closure of the
\* last render.
HPlaceModel ==
    /\ hReticle.mounted
    /\ hSession # 0
    /\ IF hReticle.visible /\ ~hView.placed
       THEN /\ hModels' = Append(hView.models, HNewModel(hReticle.pos))
            /\ hPlaced' = TRUE
            /\ hReticle' = [hReticle EXCEPT !.visible = FALSE]
            /\ last' = Last("hPlace", "placed", hReticle.pos, TRUE)
       ELSE /\ last' = Last("hPlace", "ignored", 0, FALSE)
            /\ UNCHANGED << hModels, hPlaced, hReticle >>
    /\ UNCHANGED << variant, impVars, hSupport, hSession, hGranted, hView, hRotation >>

\* setCubes([...cubes, { position, id }]) / setModels([...models, { position, id }]):
\* the new list is built from the list the closure of the last render holds.
PlacedList(pos) == Append(hView.models, HNewModel(pos))

\* placeCube (and placeModel of the multi-object XrHitCube), the reticle
\* mesh's onPointerDown, with the closure of the last render.  There is no
\* hasPlacedModel here and the reticle stays as it is.
HPlaceCube ==
    /\ hReticle.mounted
    /\ hSession # 0
    /\ Len(hView.models) < MaxObjects
    /\ IF hReticle.visible
       THEN /\ hModels' = PlacedList(hReticle.pos)
            /\ last' = Last("hPlace", "placed", hReticle.pos, TRUE)
       ELSE /\ last' = Last("hPlace", "ignored", 0, FALSE)
            /\ UNCHANGED hModels
    /\ UNCHANGED << variant, impVars, hSupport, hSession, hGranted, hPlaced, hView,
                    hReticle, hRotation >>

InitHit ==
    /\ variant = "XrHitCube"
    /\ InitImperative
    /\ InitDeclarative
    /\ last = First("init", "-", 0, FALSE)

NextHit ==
    \/ HCheckSupport
    \/ HEnterAR
    \/ HSessionEnd
    \/ HRender
    \/ HHitTest
    \/ HUseFrame
    \/ HPlaceModel

SpecHit == InitHit /\ [][NextHit]_vars

\* The multi-object components: XrHitCube with placeCube and Cube, and the
\* XrHitCube whose placeModel appends to `models`.
InitCubes ==
    /\ variant = "XrHitCubes"
    /\ InitImperative
    /\ InitDeclarative
    /\ last = First("init", "-", 0, FALSE)

NextCubes ==
    \/ HCheckSupport
    \/ HEnterAR
    \/ HSessionEnd
    \/ HRender
    \/ HHitTest
    \/ HUseFrame
    \/ HPlaceCube

SpecCubes == InitCubes /\ [][NextCubes]_vars

\* The container of part_004 around the multi-object XrHitCube: it has no
\* useEffect, so isXRSupported does not exist and no capability check runs.
InitUnchecked ==
    /\ variant = "Unchecked"
    /\ InitImperative
    /\ InitDeclarative
    /\ last = First("init", "-", 0, FALSE)

NextUnchecked ==
    \/ HEnterAR
    \/ HSessionEnd
    \/ HRender
    \/ HHitTest
    \/ HUseFrame
    \/ HPlaceCube

SpecUnchecked == InitUnchecked /\ [][NextUnchecked]_vars

\* ------------------------------------------------------ specification
\* part_002's onXRFrame as a function of the handles and of the frame: the
\* handler is applied in every combination of sessionRef, the scene handles,
\* the reference space, the hit-test source and the reticle with the frame
\* of a running session, also in the combinations that the start and end
\* sequences above never produce (a frame of a session that is not the one in
\* sessionRef, a tick with sessionRef null and the loop still registered).
InitTick ==
    /\ variant = "Simple"
    /\ InitDeclarative
    /\ checkPc = "done"
    /\ isARSupported = TRUE
    /\ isARSession \in BOOLEAN
    /\ isLoading = FALSE
    /\ error = "none"
    /\ instructions = Instr("point", 0)
    /\ runtimeErrors = << >>
    /\ clock = 1
    /\ startPc = "idle"
    /\ sessionRef \in 0..MaxSessions
    /\ sceneGen \in {0, 1}
    /\ viewerSpaceRef = 0
    /\ localSpaceRef \in 0..MaxSessions
    /\ hitTestSourceRef \in 0..MaxSessions
    /\ spherePlaced = FALSE
    /\ objects = << >>
    /\ reticle \in [visible : BOOLEAN, matrix : Poses]
    /\ sphere = [inScene |-> FALSE, pose |-> 0]
    /\ sceneObjs = << >>
    /\ animLoops = {1}
    /\ granted = MaxSessions
    /\ live \in {{s} : s \in 1..MaxSessions}
    /\ ending = 0
    /\ endCause = "none"
    /\ handlers = {}
    /\ cancelled = {}
    /\ anchorsPending = 0
    /\ last = First("init", "-", 0, FALSE)

NextTick == OnXRFrame

SpecTick == InitTick /\ [][NextTick]_vars

Next ==
    \/ CheckSupport
    \/ StartSteps
    \/ PlatformEnd
    \/ EndAR
    \/ DispatchEnd
    \/ OnXRFrame
    \/ OnSelect
    \/ AnchorSettle
    \/ ClearErrors

Spec == Init /\ [][Next]_vars

\* A promise startAR awaits settles: it resolves or it rejects.
Settle ==
    \/ RequestSessionReject
    \/ RequestSessionResolve
    \/ MakeCompatibleReject
    \/ MakeCompatibleResolve
    \/ ViewerSpaceReject
    \/ ViewerSpaceResolve
    \/ LocalSpaceReject
    \/ LocalSpaceResolve
    \/ HitSourceReject
    \/ HitSourceResolve

\* The platform settles every promise that startAR awaits and delivers every
\* queued "end" event.  The fairness on Settle is strong and the log is
\* cleared again and again because a rejection writes a diagnostic record,
\* which the bound on the log's clock can hold up until the log is cleared.
Fairness ==
    /\ SF_vars(Settle)
    /\ WF_vars(DispatchEnd)
    /\ WF_vars(ClearErrors)

SpecFair == Init /\ [][Next]_vars /\ Fairness

\* ---------------------------------------------------------------- claims

\* The cleanup the spec asks of every session end.
CleanedUp ==
    /\ hitTestSourceRef = 0
    /\ PlacedInScene = 0 /\ PlacementEmpty
    /\ animLoops = {}
    /\ ~isARSession /\ sessionRef = 0

\* C1: once end() has been invoked on an active session and the platform has
\* either carried the termination out (the end event was delivered) or rejected
\* the request, the cleanup has run: the hit-test source is unset, no placed
\* content is left, no frame callback is registered and the state is Idle.
C1_EndAlwaysCleansUp ==
    (\/ last.op = "endEvent" /\ last.step = "explicit"
     \/ last.op = "endAR" /\ last.step = "rejected" /\ ending = 0)
    => CleanedUp

\* C2: after a start() that failed in one of the steps (a)-(d), nothing partial
\* is left: the session, reference-space and hit-test-source handles are unset
\* and no frame callback or listener that can still fire is registered.
C2_FailedStartLeavesNothing ==
    (last.op = "startFailed"
       /\ last.step \in {"scene", "compat", "layer", "viewer", "local", "hit"})
    => /\ sessionRef = 0
       /\ viewerSpaceRef = 0 /\ localSpaceRef = 0
       /\ hitTestSourceRef = 0
       /\ animLoops = {}
       /\ handlers \cap live = {}

\* C3: when requestHitTestSource rejects, start() reports failure (error text
\* set, AR-active flag false) and no frame callback is registered.
C3_HitSourceRejectNoCallback ==
    (last.op = "startFailed" /\ last.step = "hit")
    => (error = "startFailed" /\ ~isARSession /\ animLoops = {})

\* C4: when a session's end event has been delivered, whoever ended it and
\* however many objects were placed, no placed object is left in the render
\* graph and the placement state is Empty.
C4_EndClearsPlaced ==
    last.op = "endEvent" => (PlacedInScene = 0 /\ PlacementEmpty)

\* C4 witness: a session with two placed objects has ended.
C4_Witness ==
    last.op = "endEvent" /\ last.n >= 2 /\ last.flag /\ PlacedInScene = 0

\* C5: after a session in which objects were placed has ended, the next
\* session starts with placement Empty: no model placed in an earlier session
\* is on screen in the new session, and as long as nothing has been placed in
\* the running session the component has not yet recorded a placement, so the
\* first selection on a surface hit is accepted.  (model of XrHitCube)
C5_NewSessionStartsEmpty ==
    /\ \A i \in 1..Len(HRendered) : HRendered[i].session = hView.session
    /\ (hSession # 0 /\ \A i \in 1..Len(hModels) : hModels[i].session # hSession)
          => ~hPlaced

\* C6: the end handling itself cancels the hit-test source and unregisters the
\* frame callback: right after the end listener ran, the source handle is
\* unset and no animation loop is registered.
C6_EndUnregistersLoop ==
    (last.op = "endEvent" /\ last.flag) => (hitTestSourceRef = 0 /\ animLoops = {})

\* C7: the end event of an Active session leaves the same state whether the
\* platform or end() ended the session: the hit-test source is cancelled and
\* unset, the session handle unset, the placed content removed, the AR-active
\* flag false, and the rest of the component state untouched.
C7_PlatformEndSameCleanup ==
    [][ (isARSession /\ ending # 0 /\ ending' = 0)
        => /\ hitTestSourceRef' = 0
           /\ (hitTestSourceRef # 0 => hitTestSourceRef \in cancelled')
           /\ sessionRef' = 0
           /\ ~isARSession'
           /\ instructions' = Instr("ended", 0)
           /\ ~spherePlaced' /\ ~sphere'.inScene /\ sphere'.pose = sphere.pose
           /\ objects' = << >> /\ sceneObjs' = << >>
           /\ UNCHANGED << isARSupported, isLoading, error, runtimeErrors, clock,
                           startPc, sceneGen, viewerSpaceRef, localSpaceRef, reticle,
                           granted, live, handlers, anchorsPending >> ]_vars

\* C7 witness: the platform ended an Active session that had placed content,
\* and the end listener ran.
C7_Witness ==
    last.op = "endEvent" /\ last.step = "platform" /\ last.flag /\ last.n >= 1

\* C8: whenever the session handle is non-null the frame callback is registered.
C8_SessionImpliesLoop == sessionRef # 0 => animLoops # {}

\* C9: at most one granted session is un-ended, and start() issues its
\* requestSession only when no granted session is un-ended.
C9_OneSessionAtATime ==
    /\ Cardinality(live) <= 1
    /\ last.op = "startAR" => last.n = 0

\* C10: a tick that throws changes neither the loop registration, nor the
\* session, nor the placement; the callback stays registered for the next
\* tick; the log gains at most one record.
C10_FrameErrorContained ==
    [][ (last'.op = "frame" /\ last'.flag)
        => /\ animLoops' = animLoops /\ animLoops' # {}
           /\ UNCHANGED << sessionRef, live, ending, handlers, isARSession, isLoading,
                           spherePlaced, objects, sphere, sceneObjs, hitTestSourceRef >>
           /\ \/ runtimeErrors' = runtimeErrors
              \/ runtimeErrors' = AddError(runtimeErrors, clock) ]_vars

\* C10 witness: a tick threw in an active session with placed content, and its
\* error was sampled into the log.
C10_Witness ==
    /\ last.op = "frame" /\ last.flag
    /\ isARSession /\ PlacedInScene >= 1
    /\ error = "none" /\ Len(runtimeErrors) = 1

\* C11: a selection event delivered while the reticle is invisible creates no
\* placed object and leaves the render graph and the placement state as they
\* were.
C11_InvisibleReticleNoPlacement ==
    [][ (last'.op = "select" /\ ~reticle.visible)
        => UNCHANGED << spherePlaced, sphere, objects, sceneObjs, anchorsPending >> ]_vars

\* C12: under the single-object policy (App.tsx), a selection event delivered
\* while the reticle is visible and nothing is placed puts exactly one object
\* into the render graph, at the reticle's pose, and the placement state
\* becomes Placed.
C12_VisibleReticlePlacesAtReticle ==
    [][ (last'.op = "select" /\ variant = "App"
           /\ reticle.visible /\ ~spherePlaced /\ ~sphere.inScene)
        => (spherePlaced' /\ sphere' = [inScene |-> TRUE, pose |-> reticle.matrix]) ]_vars

\* C13: under the single-object policy (XrHitCube), once a model has been
\* placed every later selection is a no-op: the list of placed models, and
\* with it their number and their poses, stays as it is.
C13_SecondSelectionNoOp ==
    [][ (last'.op = "hPlace" /\ hPlaced) => hModels' = hModels ]_vars

\* C14: when anchor creation rejects, the placed sphere stays in the render
\* graph at its pose and the placement state is unchanged; the only effect is
\* one record added to the diagnostic log.
C14_AnchorRejectionOnlyLogs ==
    [][ (last'.op = "anchor" /\ last'.flag)
        => /\ UNCHANGED << spherePlaced, sphere, objects, sceneObjs, reticle >>
           /\ UNCHANGED << uiVars, refVars, animLoops, platVars, startPc, checkPc >>
           /\ runtimeErrors' = AddError(runtimeErrors, clock) ]_vars

\* C14 witness: an anchor was rejected while the sphere is in the scene, away
\* from where the reticle is now, and the log holds the one record of it.
C14_Witness ==
    /\ last.op = "anchor" /\ last.flag
    /\ spherePlaced /\ sphere.inScene /\ sphere.pose # reticle.matrix
    /\ Len(runtimeErrors) = 1

\* C15: after a frame tick whose hit-test query returned no result, the
\* reticle is invisible.
C15_EmptyResultHidesReticle ==
    (last.op = "frame" /\ last.query.kind = "empty") => ~reticle.visible

\* C15 witness: a tick of an active session queried the hit-test source, got
\* no result and rendered.
C15_Witness ==
    /\ last.op = "frame" /\ last.query.kind = "empty" /\ last.step = "rendered"
    /\ isARSession /\ ~reticle.visible /\ reticle.matrix # 0

C17_VisibilityFunctionOfResults ==
    (last.op = "frame" /\ last.query.kind # "none")
    => (reticle.visible <=> last.query.kind # "empty")

\* C18: in every reachable state the diagnostic log holds at most 5 records.
C18_LogWithinCapacity == Len(runtimeErrors) <= LogCapacity

\* C18 witness: the log is full and its oldest record has already been
\* evicted once.
C18_Witness == Len(runtimeErrors) = LogCapacity /\ runtimeErrors[1] > 1

\* The handlers that call addError exactly once: a rejected anchor, a select
\* that threw, a start that failed anywhere but in setupScene.
InsertsOne(l) ==
    \/ l.op = "anchor" /\ l.flag
    \/ l.op = "select" /\ l.step = "threw"
    \/ l.op = "startFailed" /\ l.step # "scene"

\* C19: inserting into a full log evicts exactly the oldest record.  The log
\* always equals the last 5 records inserted since the last clear, in
\* insertion order (the records are the timestamps 1 .. clock - 1); a handler
\* that inserts one record into a full log leaves the previous log without its
\* first record, in the same order, followed by the new record; and whenever a
\* step changes a full log without clearing it, the log is the previous one
\* shifted by the number of records inserted, the new records last.
C19_FullLogEvictsOldest ==
    [][ /\ runtimeErrors' = LastN([i \in 1..(clock' - 1) |-> i], LogCapacity)
        /\ Len(runtimeErrors) = LogCapacity
           => /\ InsertsOne(last')
                   => runtimeErrors' = Tail(runtimeErrors) \o << clock >>
              /\ (runtimeErrors' # runtimeErrors /\ runtimeErrors' # << >>)
                   => \E k \in 1..2 :
                        /\ Len(runtimeErrors') = LogCapacity
                        /\ SubSeq(runtimeErrors', 1, LogCapacity - k)
                             = SubSeq(runtimeErrors, k + 1, LogCapacity)
                        /\ \A i \in (LogCapacity - k + 1)..LogCapacity :
                             runtimeErrors'[i] > runtimeErrors[LogCapacity] ]_vars

\* C19 witness: six records were inserted one after the other since the last
\* clear; the log holds the second to the sixth, the last by a handler that
\* inserts one record.
C19_Witness ==
    /\ runtimeErrors = [i \in 1..LogCapacity |-> i + 1]
    /\ InsertsOne(last)

\* C20: once checkSupport has resolved false, the start control is disabled
\* and the instruction text says that AR is not supported, in the state it
\* leaves and in every state after it.
C20_UnsupportedStaysDisabled ==
    [][ ((last'.op = "checkSupport" /\ last'.step = "no") \/ error = "notSupported")
        => /\ error' = "notSupported"
           /\ ~StartEnabled'
           /\ instructions' = Instr("notSupported", 0) ]_vars

\* C20 witness: checkSupport resolved false; loading is over and the control
\* is disabled.
C20_Witness ==
    /\ last.op = "checkSupport" /\ last.step = "no"
    /\ ~isLoading /\ ~isARSupported /\ ~StartEnabled
    /\ instructions = Instr("notSupported", 0)

\* C21: end() is idempotent.  An invocation of end() that finds no session,
\* a session that has already ended, or a session whose end is still pending
\* (a first end() was made and the end event has not been delivered yet)
\* fails nowhere and leaves the whole state as it was: no diagnostic record,
\* no change to the UI state, the handles or the placement.
C21_EndIsIdempotent ==
    [][ (last'.op = "endAR" /\ last'.step # "requested")
          => /\ UNCHANGED impVars
             /\ ~last'.flag ]_vars

\* C22 (as stated): on every successful start() the steps happen in the order
\* (a) render surface constructed and made XR-compatible, (b) compositor
\* render target created and registered, (c) both reference spaces acquired,
\* (d) hit-test source created, (e) frame callback registered, (f) selection
\* listener registered, (g) termination listener registered.
C22_StartOrderLoopThenListeners ==
    last.op = "started"
      => last.order = << "renderer", "xrCompatible", "baseLayer", "viewerSpace",
                         "localFloorSpace", "hitTestSource", "animationLoop",
                         "select", "end" >>

\* C22 (amended): on every successful start() the steps happen in the order
\* (a) render surface constructed and made XR-compatible, (b) compositor
\* render target created and registered, (c) viewer then local-floor reference
\* space acquired, (d) hit-test source created, then the selection listener,
\* then the termination listener, and the frame callback is registered last.
C22_StartOrderListenersThenLoop ==
    last.op = "started"
      => last.order = << "renderer", "xrCompatible", "baseLayer", "viewerSpace",
                         "localFloorSpace", "hitTestSource", "select", "end",
                         "animationLoop" >>

\* A start() has just gone through: the session is shown as active, its
\* listeners and its frame loop are registered.
C22_Witness ==
    /\ last.op = "started"
    /\ isARSession
    /\ sessionRef \in handlers
    /\ sceneGen \in animLoops

\* C23: when a selection event is accepted, the pose of the created
\* PlacedObject equals the pose of the first hit-test result of the frame
\* attached to that selection event, relative to local-floor; it is not taken
\* from the reticle transform that an earlier frame tick left.
C23_PlacedAtEventFrameHit ==
    (last.op = "select" /\ last.step = "placed")
      => /\ last.query.kind = "first"
         /\ last.n = last.query.pose

\* C24: under the multi-object policy every selection event accepted by the
\* guard (reticle visible) adds exactly one PlacedObject and removes none, so
\* that k accepted events leave k placed objects, also when several events
\* are delivered before the component is re-rendered.
C24_AcceptedSelectionAddsOne ==
    [][ (last'.op = "hPlace" /\ last'.step = "placed")
          => /\ Len(hModels') = Len(hModels) + 1
             /\ \A i \in 1..Len(hModels) : hModels'[i] = hModels[i] ]_vars

\* C25: a frame tick in which the viewer pose cannot be resolved against
\* local-floor issues no render pass and is not an error: no diagnostic
\* record is added, the session stays as it was (Active stays Active), the
\* frame callback stays registered, the hit-test engine is not queried and
\* the reticle is left alone.
C25_NoPoseTickIsNoError ==
    [][ (last'.op = "frame" /\ last'.step = "nopose")
          => /\ last'.n = 0
             /\ ~last'.flag
             /\ last'.query = NoQuery
             /\ UNCHANGED << runtimeErrors, isARSession, sessionRef, live, animLoops,
                             reticle >> ]_vars

\* A tick without a viewer pose has just run in an active session whose frame
\* callback is registered.
C25_Witness ==
    /\ last.op = "frame"
    /\ last.step = "nopose"
    /\ isARSession
    /\ sessionRef \in live
    /\ animLoops # {}

C27_FrameLeavesPlacementAlone ==
    [][ /\ last'.op = "frame" => UNCHANGED << sphere, spherePlaced, objects, sceneObjs >>
        /\ PlacedInScene' > PlacedInScene => last'.op = "select"
        /\ PlacedInScene' < PlacedInScene => last'.op = "endEvent" ]_vars

\* A tick has rendered a scene that holds a placed object.
C27_Witness ==
    /\ last.op = "frame"
    /\ last.step = "rendered"
    /\ PlacedInScene > 0

\* C28: a frame tick or a selection event that runs while a handle it needs
\* (renderer, scene, camera, reticle, local-floor space, hit-test source) is
\* still unset degrades to a no-op: it issues no render pass, raises no
\* fault, adds no diagnostic record and changes no state.
C28_UnsetHandleIsNoOp ==
    [][ ( /\ last'.op \in {"frame", "select"}
          /\ (sceneGen = 0 \/ localSpaceRef = 0 \/ hitTestSourceRef = 0) )
          => /\ last'.op = "frame" => (last'.n = 0 /\ ~last'.flag)
             /\ last'.step # "threw"
             /\ UNCHANGED impVars ]_vars

\* C29: once a PlacedObject has been created, its pose (position and
\* orientation) is the same in every later state of the session until the
\* object is removed at session end: no step, and in particular no frame
\* tick and no later selection event, rewrites the position or the
\* orientation of an object that stays in the render graph.
C29_PlacedPoseIsFixed ==
    [][ \A i \in 1..Len(hRotation) :
          i <= Len(hRotation')
            => /\ hRotation'[i] = hRotation[i]
               /\ HRendered'[i].pos = HRendered[i].pos ]_vars

\* C30: when start() fails because the platform refuses the session mode or
\* the required features (requestSession rejects), the error is surfaced to
\* the user and the start control is disabled afterwards.
C30_RefusedStartDisablesControl ==
    (last.op = "startFailed" /\ last.step = "request")
      => /\ error = "startFailed"
         /\ ~StartEnabled

\* C31: in every reachable state the start control is enabled only if
\* checkSupport() has completed and returned true: it is disabled while the
\* capability check is pending, when it returned false and when it failed.
C31_StartOnlyAfterSupport ==
    /\ StartEnabled => (checkPc = "done" /\ isARSupported)
    /\ HStartEnabled => hSupport = "yes"

\* C32: a hit-test source is never queried after it has been cancelled.  The
\* frame tick and the selection handler pass hitTestSourceRef.current, and
\* nothing else, to getHitTestResults; in every reachable state that handle
\* is null or a source on which cancel() has not been called.
C32_CancelledSourceNeverQueried ==
    hitTestSourceRef # 0 => hitTestSourceRef \notin cancelled

\* A tick of a later session has queried its hit-test source after the source
\* of an earlier session was cancelled.
C32_Witness ==
    /\ cancelled # {}
    /\ last.op = "frame"
    /\ last.query.kind # "none"
    /\ hitTestSourceRef # 0

\* C33: if the platform terminates the session while start() is in progress
\* (after the session was granted, before the termination handler is
\* registered), start() settles as a failure: the AR-active flag is not set
\* for that session, no frame callback and no selection handler is
\* registered for it, and the session handle is null once start() has settled.
C33_EndDuringStartFails ==
    [][ ( /\ startPc \notin {"idle", "request"}
          /\ startPc' = "idle"
          /\ sessionRef \notin live )
          => /\ ~isARSession'
             /\ error' = "startFailed"
             /\ sessionRef \notin handlers'
             /\ animLoops' = animLoops
             /\ sessionRef' = 0 ]_vars

\* C34: in every reachable state, isARSession being true implies that the
\* session handle, the local-floor reference space and the hit-test source
\* handle are all non-null; the flag is false whenever the session handle
\* is null.
C34_ActiveFlagImpliesHandles ==
    isARSession => (sessionRef # 0 /\ localSpaceRef # 0 /\ hitTestSourceRef # 0)

\* The session is shown as active with its handles set, and a frame tick has
\* run in it.
C34_Witness ==
    /\ isARSession
    /\ sessionRef \in live
    /\ last.op = "frame"
    /\ last.step = "rendered"

\* C35: in every reachable state the placement bookkeeping agrees with the
\* render graph: in the single-object variant the placed flag is true iff
\* the sphere is in the scene; in the multi-object variant the list of placed
\* objects holds exactly the placed spheres that are in the scene.
C35_BookkeepingMatchesScene ==
    IF variant = "App"
    THEN spherePlaced <=> sphere.inScene
    ELSE objects = sceneObjs

\* An object has been placed: it is in the books and in the scene.
C35_Witness ==
    /\ last.op = "select"
    /\ last.step = "placed"
    /\ PlacedInScene > 0
    /\ ~PlacementEmpty

\* C36: in the multi-object variant (part_002) a frame tick whose frame
\* belongs to a session other than the current session handle, or that
\* arrives when the session handle is null, does nothing: no hit-test query,
\* no reticle update, no render pass, no fault and no diagnostic record.
C36_ForeignTickDoesNothing ==
    [][ ( /\ variant = "Simple"
          /\ last'.op = "frame"
          /\ (sessionRef = 0 \/ last'.step = "othersession") )
          => /\ last'.n = 0
             /\ ~last'.flag
             /\ last'.query = NoQuery
             /\ UNCHANGED impVars ]_vars

\* part_002: a tick has run on the frame of a session that is not the one in
\* sessionRef.
C36_Witness ==
    /\ variant = "Simple"
    /\ last.op = "frame"
    /\ last.step = "othersession"
    /\ sceneGen # 0
    /\ localSpaceRef # 0
    /\ sessionRef \notin live

Idle ==
    /\ ~isARSession
    /\ sessionRef = 0
    /\ hitTestSourceRef = 0
    /\ PlacedInScene = 0
    /\ PlacementEmpty

C39_ReticleHiddenAfterPlacement ==
    hPlaced => ~(hReticle.mounted /\ hReticle.visible)

====
